---- MODULE Spec2Model ----
(***************************************************************************)
(* Temperature-sensitivity models of eemeter                               *)
(* (eemeter/models/temperature_sensitivity.py): the three balance-point    *)
(* usage models, the memoized grid accelerator returned by                 *)
(* precompute_usage_estimates, and ModelBase.parameter_optimization.       *)
(*                                                                         *)
(* Arithmetic is exact fixed point.  A temperature, a balance point or a   *)
(* usage is an integer number of units, Unit units to the degree; the      *)
(* 1/bp_scale grid of the accelerator is every GridStep-th unit, so a      *)
(* value is on the grid iff GridStep divides it.  Slopes and weights are   *)
(* plain integers.  A quotient by a period length n is kept exactly, as    *)
(* the multiple of 1/DayScale it is.  Floating-point rounding is not       *)
(* modelled.                                                               *)
(***************************************************************************)
EXTENDS Integers, Sequences, FiniteSets, TLC

VARIABLES usage, fit, fitB

vars == <<usage, fit, fitB>>

(***************************************************************************)
(* Bounds and units                                                        *)
(***************************************************************************)
\* sub-grid positions per grid step (the resolution of off-grid values)
Sub == 2
\* most days in a generated period
MaxDays == 2
\* most periods in a generated series
MaxPeriods == 2
\* most objective evaluations the optimizer makes in one call
MaxEvals == 2
\* largest factor the slopes and the base load are multiplied by
MaxFactor == 3

\* the bp_scale that parameter_optimization passes to the accelerator
PrecomputeScale == 10

Unit == PrecomputeScale * Sub

Deg(d) == d * Unit

\* 1.0/bp_scale
GridStep(bp_scale) == Unit \div bp_scale

(***************************************************************************)
(* numpy and builtins                                                      *)
(***************************************************************************)
RECURSIVE np_sum(_)
np_sum(a) == IF a = <<>> THEN 0 ELSE Head(a) + np_sum(Tail(a))

np_maximum(a, b) == IF a >= b THEN a ELSE b

np_count_nonzero(a) == Cardinality({i \in DOMAIN a : a[i] # 0})

np_max(a) == CHOOSE x \in {a[i] : i \in DOMAIN a} : \A i \in DOMAIN a : a[i] <= x

np_min(a) == CHOOSE x \in {a[i] : i \in DOMAIN a} : \A i \in DOMAIN a : x <= a[i]

\* np.floor(bp*bp_scale)/bp_scale
np_floor(bp, bp_scale) == ((bp * bp_scale) \div Unit) * GridStep(bp_scale)

\* np.ceil(bp*bp_scale)/bp_scale
np_ceil(bp, bp_scale) == (0 - ((0 - bp * bp_scale) \div Unit)) * GridStep(bp_scale)

(***************************************************************************)
(* The brute-force usage models                                            *)
(***************************************************************************)
\* HDDCDDBalancePointModel.compute_usage_estimates with cooling counted from
\* bp_low instead of bp_high
HDDCDD_cooling_from_bp_low(params, observed_daily_temps) ==
    LET ts_low == params[1]
        ts_high == params[2]
        base_load == params[3]
        bp_low == params[4]
    IN [j \in DOMAIN observed_daily_temps |->
          LET interval_daily_temps == observed_daily_temps[j]
              cooling == [i \in DOMAIN interval_daily_temps |->
                             np_maximum(interval_daily_temps[i] - bp_low, 0) * ts_high]
              heating == [i \in DOMAIN interval_daily_temps |->
                             np_maximum(bp_low - interval_daily_temps[i], 0) * ts_low]
          IN np_sum([i \in DOMAIN interval_daily_temps |-> cooling[i] + heating[i]])
             + base_load * Len(interval_daily_temps)]

\* HDDCDDBalancePointModel.compute_usage_estimates with the base load added to
\* the number of days instead of multiplied by it
HDDCDD_base_plus_days(params, observed_daily_temps) ==
    LET ts_low == params[1]
        ts_high == params[2]
        base_load == params[3]
        bp_low == params[4]
        bp_high == params[4] + params[5]
    IN [j \in DOMAIN observed_daily_temps |->
          LET interval_daily_temps == observed_daily_temps[j]
              cooling == [i \in DOMAIN interval_daily_temps |->
                             np_maximum(interval_daily_temps[i] - bp_high, 0) * ts_high]
              heating == [i \in DOMAIN interval_daily_temps |->
                             np_maximum(bp_low - interval_daily_temps[i], 0) * ts_low]
          IN np_sum([i \in DOMAIN interval_daily_temps |-> cooling[i] + heating[i]])
             + base_load + Len(interval_daily_temps)]

\* HDDCDDBalancePointModel.compute_usage_estimates
HDDCDD_compute_usage_estimates(params, observed_daily_temps) ==
    LET ts_low == params[1]
        ts_high == params[2]
        base_load == params[3]
        bp_low == params[4]
        bp_diff == params[5]
        bp_high == bp_low + bp_diff
    IN [j \in DOMAIN observed_daily_temps |->
          LET interval_daily_temps == observed_daily_temps[j]
              cooling == [i \in DOMAIN interval_daily_temps |->
                             np_maximum(interval_daily_temps[i] - bp_high, 0) * ts_high]
              heating == [i \in DOMAIN interval_daily_temps |->
                             np_maximum(bp_low - interval_daily_temps[i], 0) * ts_low]
              total == np_sum([i \in DOMAIN interval_daily_temps |->
                                  cooling[i] + heating[i]])
                       + base_load * Len(interval_daily_temps)
          IN total]

\* HDDBalancePointModel.compute_usage_estimates with slope and base load swapped
HDD_params_swapped(params, observed_daily_temps) ==
    LET reference_temperature == params[1]
        base_level_consumption == params[3]
        heating_slope == params[2]
    IN [j \in DOMAIN observed_daily_temps |->
          LET interval_daily_temps == observed_daily_temps[j]
              heating == [i \in DOMAIN interval_daily_temps |->
                             np_maximum(reference_temperature - interval_daily_temps[i], 0)
                             * heating_slope]
          IN np_sum(heating) + base_level_consumption * Len(interval_daily_temps)]

\* HDDBalancePointModel.compute_usage_estimates with the difference taken the
\* other way round (day temperature minus reference temperature)
HDD_sign_flipped(params, observed_daily_temps) ==
    LET reference_temperature == params[1]
        base_level_consumption == params[2]
        heating_slope == params[3]
    IN [j \in DOMAIN observed_daily_temps |->
          LET interval_daily_temps == observed_daily_temps[j]
              heating == [i \in DOMAIN interval_daily_temps |->
                             np_maximum(interval_daily_temps[i] - reference_temperature, 0)
                             * heating_slope]
          IN np_sum(heating) + base_level_consumption * Len(interval_daily_temps)]

\* HDDBalancePointModel.compute_usage_estimates
HDD_compute_usage_estimates(params, observed_daily_temps) ==
    LET reference_temperature == params[1]
        base_level_consumption == params[2]
        heating_slope == params[3]
    IN [j \in DOMAIN observed_daily_temps |->
          LET interval_daily_temps == observed_daily_temps[j]
              heating == [i \in DOMAIN interval_daily_temps |->
                             np_maximum(reference_temperature - interval_daily_temps[i], 0)
                             * heating_slope]
              total == np_sum(heating)
                       + base_level_consumption * Len(interval_daily_temps)
          IN total]

\* CDDBalancePointModel.compute_usage_estimates
CDD_compute_usage_estimates(params, observed_daily_temps) ==
    LET reference_temperature == params[1]
        base_level_consumption == params[2]
        cooling_slope == params[3]
    IN [j \in DOMAIN observed_daily_temps |->
          LET interval_daily_temps == observed_daily_temps[j]
              cooling == [i \in DOMAIN interval_daily_temps |->
                             np_maximum(interval_daily_temps[i] - reference_temperature, 0)
                             * cooling_slope]
              total == np_sum(cooling)
                       + base_level_consumption * Len(interval_daily_temps)
          IN total]

(***************************************************************************)
(* precompute_usage_estimates: the memoized grid accelerator               *)
(***************************************************************************)
\* bounds[3][0]+bounds[4][0]-1.0/bp_scale (Python indices count from 0)
bp_cool_min(bounds, bp_scale) == bounds[4][1] + bounds[5][1] - GridStep(bp_scale)

\* bounds[3][1]+1.0/bp_scale
bp_heat_max(bounds, bp_scale) == bounds[4][2] + GridStep(bp_scale)

\* __hdd_and_margin with the shortcut testing the period's maximum
\* temperature instead of its minimum
hdd_and_margin_skips_on_max(bp, observed_daily_temps, bounds, bp_scale) ==
    LET row == [j \in DOMAIN observed_daily_temps |->
                  IF bp <= bp_heat_max(bounds, bp_scale)
                     /\ bp > np_max(observed_daily_temps[j])
                  THEN LET h_array == [i \in DOMAIN observed_daily_temps[j] |->
                                          np_maximum(bp - observed_daily_temps[j][i], 0)]
                       IN <<np_sum(h_array), np_count_nonzero(h_array)>>
                  ELSE <<0, 0>>]
    IN <<[j \in DOMAIN row |-> row[j][1]], [j \in DOMAIN row |-> row[j][2]]>>

\* the body of __hdd_and_margin: <<hdd, margin>>, one entry per period
hdd_and_margin(bp, observed_daily_temps, bounds, bp_scale) ==
    LET row == [j \in DOMAIN observed_daily_temps |->
                  IF bp <= bp_heat_max(bounds, bp_scale)
                     /\ bp > np_min(observed_daily_temps[j])
                  THEN LET h_array == [i \in DOMAIN observed_daily_temps[j] |->
                                          np_maximum(bp - observed_daily_temps[j][i], 0)]
                       IN <<np_sum(h_array), np_count_nonzero(h_array)>>
                  ELSE <<0, 0>>]
    IN <<[j \in DOMAIN row |-> row[j][1]], [j \in DOMAIN row |-> row[j][2]]>>

\* the body of __cdd_and_margin: <<cdd, margin>>, one entry per period
cdd_and_margin(bp, observed_daily_temps, bounds, bp_scale) ==
    LET row == [j \in DOMAIN observed_daily_temps |->
                  IF bp >= bp_cool_min(bounds, bp_scale)
                     /\ bp < np_max(observed_daily_temps[j])
                  THEN LET c_array == [i \in DOMAIN observed_daily_temps[j] |->
                                          np_maximum(observed_daily_temps[j][i] - bp, 0)]
                       IN <<np_sum(c_array), np_count_nonzero(c_array)>>
                  ELSE <<0, 0>>]
    IN <<[j \in DOMAIN row |-> row[j][1]], [j \in DOMAIN row |-> row[j][2]]>>

\* memodict.__getitem__ with __missing__: the entry returned for key
memo_get(memo, key, computed) == IF key \in DOMAIN memo THEN memo[key] ELSE computed

\* memodict.__missing__ on a dict that keeps no entry but the newest
memo_put_keeps_last(memo, key, computed) ==
    IF key \in DOMAIN memo THEN memo
    ELSE [k \in {key} |-> computed]

\* memodict.__missing__: self[key] = f(key), only when key is absent
memo_put(memo, key, computed) ==
    IF key \in DOMAIN memo THEN memo
    ELSE [k \in DOMAIN memo \cup {key} |-> IF k = key THEN computed ELSE memo[k]]

\* how often f(key) has run, per key: __missing__ is the only caller of f, and
\* dict.__getitem__ calls it only when key is absent
memo_runs(runs, memo, key) ==
    IF key \in DOMAIN memo THEN runs
    ELSE [k \in DOMAIN runs \cup {key} |->
             (IF k \in DOMAIN runs THEN runs[k] ELSE 0) + (IF k = key THEN 1 ELSE 0)]

\* the key __hdd looks up
hdd_key(bp, bp_scale) == np_floor(bp, bp_scale)

\* the key __cdd looks up
cdd_key(bp, bp_scale) == np_ceil(bp, bp_scale)

\* __hdd(bp): hdd + remainder*margin
accel_hdd(memo, bp, observed_daily_temps, bounds, bp_scale) ==
    LET rounded == hdd_key(bp, bp_scale)
        remainder == bp - rounded
        hm == memo_get(memo, rounded,
                       hdd_and_margin(rounded, observed_daily_temps, bounds, bp_scale))
    IN [j \in DOMAIN observed_daily_temps |-> hm[1][j] + remainder * hm[2][j]]

\* __cdd(bp): cdd + remainder*margin
accel_cdd(memo, bp, observed_daily_temps, bounds, bp_scale) ==
    LET rounded == cdd_key(bp, bp_scale)
        remainder == rounded - bp
        cm == memo_get(memo, rounded,
                       cdd_and_margin(rounded, observed_daily_temps, bounds, bp_scale))
    IN [j \in DOMAIN observed_daily_temps |-> cm[1][j] + remainder * cm[2][j]]

\* the closure compute_usage_estimates returned by precompute_usage_estimates
accel_compute_usage_estimates(hdd_memo, cdd_memo, params, observed_daily_temps, bounds, bp_scale) ==
    LET ts_low == params[1]
        ts_high == params[2]
        base_load == params[3]
        bp_low == params[4]
        bp_diff == params[5]
        bp_high == bp_low + bp_diff
        cdd == accel_cdd(cdd_memo, bp_high, observed_daily_temps, bounds, bp_scale)
        hdd == accel_hdd(hdd_memo, bp_low, observed_daily_temps, bounds, bp_scale)
    IN [j \in DOMAIN observed_daily_temps |->
          (hdd[j] * ts_low + cdd[j] * ts_high) + Len(observed_daily_temps[j]) * base_load]

\* the empty memodict() of a fresh closure
EmptyMemo == [k \in {} |-> <<>>]

(***************************************************************************)
(* ModelBase.parameter_optimization                                        *)
(*                                                                         *)
(* One call is a record: the object's fields (cls, x0, bounds,             *)
(* precompute), the arguments, the locals, the two memodicts of the        *)
(* accelerator closure with the number of times each key's arrays were     *)
(* computed, and the position pc in the body.  An observed usage is NaN    *)
(* or Float(v); weights is None or Given(list); an objective value is      *)
(* Unset, Value(v), MaskedValue (numpy's masked constant) or Raising.      *)
(***************************************************************************)
NaN == <<"nan", "nan">>

Float(v) == <<v>>

None == <<"None">>

Given(w) == <<"list", w>>

Unset == <<"unset">>

MaskedValue == <<"masked">>

Raising == <<"raised">>

Value(v) == <<"value", v>>

\* a masked element of a masked array, and an unmasked one
MaskedElem == <<>>

Elem(v) == <<v>>

RECURSIVE Factorial(_)
Factorial(n) == IF n <= 1 THEN 1 ELSE n * Factorial(n - 1)

\* quotients by a period length are multiples of 1/DayScale
DayScale == Factorial(MaxDays)

\* the number of parameters compute unpacks
ParamCount(cls) == IF cls = "HDDCDD" THEN 5 ELSE 3

NewCall(cls, x0, bounds, precompute, average_daily_usages, observed_daily_temps, weights) ==
    [cls |-> cls, x0 |-> x0, bounds |-> bounds, precompute |-> precompute,
     average_daily_usages |-> average_daily_usages,
     observed_daily_temps |-> observed_daily_temps,
     weights |-> weights,
     pc |-> "call", mask |-> <<>>, n_daily_temps |-> <<>>, w |-> <<>>,
     compute |-> "unbound", hdd_memo |-> EmptyMemo, cdd_memo |-> EmptyMemo,
     hdd_runs |-> EmptyMemo, cdd_runs |-> EmptyMemo,
     n_builds |-> 0, n_evals |-> 0, n_accel |-> 0, n_brute |-> 0,
     x |-> <<>>, usages_est |-> <<>>, objective |-> Unset,
     best_x |-> <<>>, best_f |-> Unset, params |-> <<>>, error |-> "none"]

Raise(f, exception) == [f EXCEPT !.pc = "raised", !.error = exception]

\* lines 17-23: np.isnan mask, n_daily_temps, default weights
Prepared(f) ==
    [f EXCEPT
       !.mask = [i \in DOMAIN f.average_daily_usages |->
                    f.average_daily_usages[i] = NaN],
       !.n_daily_temps = [j \in DOMAIN f.observed_daily_temps |->
                             Len(f.observed_daily_temps[j])],
       !.w = IF f.weights = None
             THEN [i \in DOMAIN f.average_daily_usages |-> 1]
             ELSE f.weights[2],
       !.pc = "prepared"]

\* lines 25-28 with the precompute flag ignored
Bound_always_brute(f) == [f EXCEPT !.compute = "brute", !.pc = "bound"]

\* lines 25-28: bind compute; precompute_usage_estimates reads bounds[3] and
\* bounds[4] (IndexError when there are fewer than 5 bounds)
Bound(f) ==
    IF f.precompute
    THEN IF Len(f.bounds) < 5
         THEN Raise(f, "IndexError")
         ELSE [f EXCEPT !.compute = "precomputed", !.n_builds = @ + 1,
                        !.hdd_memo = EmptyMemo, !.cdd_memo = EmptyMemo,
                        !.hdd_runs = EmptyMemo, !.cdd_runs = EmptyMemo,
                        !.pc = "bound"]
    ELSE [f EXCEPT !.compute = "brute", !.pc = "bound"]

\* line 36: assert len(average_daily_usages) == len(observed_daily_temps)
Asserted(f) ==
    IF Len(f.average_daily_usages) = Len(f.observed_daily_temps)
    THEN [f EXCEPT !.pc = "asserted"]
    ELSE Raise(f, "AssertionError")

\* line 38, entering opt.minimize: the bounded solver refuses an x0 and
\* bounds of different lengths before it evaluates anything
MinimizeEntered(f) ==
    IF Len(f.x0) = Len(f.bounds)
    THEN [f EXCEPT !.pc = "minimizing"]
    ELSE Raise(f, "ValueError")

\* self.compute_usage_estimates(x, observed_daily_temps) of the object's class
brute_compute(f, x) ==
    IF f.cls = "HDDCDD" THEN HDDCDD_compute_usage_estimates(x, f.observed_daily_temps)
    ELSE IF f.cls = "HDD" THEN HDD_compute_usage_estimates(x, f.observed_daily_temps)
    ELSE CDD_compute_usage_estimates(x, f.observed_daily_temps)

\* compute(params) of line 32, whichever function line 26 or 28 bound
compute(f, x) ==
    IF f.compute = "precomputed"
    THEN accel_compute_usage_estimates(f.hdd_memo, f.cdd_memo, x,
             f.observed_daily_temps, f.bounds, PrecomputeScale)
    ELSE brute_compute(f, x)

\* does the tuple unpacking of params at the head of compute succeed
Unpacks(f, x) ==
    Len(x) = (IF f.compute = "precomputed" THEN 5 ELSE ParamCount(f.cls))

\* usages_est/n_daily_temps: one average per period
avg_usages_est(usages_est, n_daily_temps) ==
    [j \in DOMAIN usages_est |-> usages_est[j] * (DayScale \div n_daily_temps[j])]

\* (average_daily_usages - avg_usages_est)**2 with NaN read as a usage of zero
squared_errors_nan_as_zero(f, usages_est) ==
    LET avg == avg_usages_est(usages_est, f.n_daily_temps)
    IN [i \in DOMAIN f.average_daily_usages |->
          LET obs == IF f.mask[i] THEN 0 ELSE f.average_daily_usages[i][1]
          IN Elem((obs * DayScale - avg[i]) * (obs * DayScale - avg[i]))]

\* (average_daily_usages - avg_usages_est)**2: a masked array, masked where
\* the observed usage is NaN
squared_errors(f, usages_est) ==
    LET avg == avg_usages_est(usages_est, f.n_daily_temps)
    IN [i \in DOMAIN f.average_daily_usages |->
          IF f.mask[i] THEN MaskedElem
          ELSE LET d == f.average_daily_usages[i][1] * DayScale - avg[i]
               IN Elem(d * d)]

\* numpy can broadcast shapes (n,) and (k,) iff n = k, n = 1 or k = 1
Broadcastable(n, k) == n = k \/ n = 1 \/ k = 1

ma_times(e, weight) == IF e = MaskedElem THEN MaskedElem ELSE Elem(e[1] * weight)

\* masked_array * weights, broadcast to the longer shape
ma_multiply(a, weights) ==
    LET n == Len(a)
        k == Len(weights)
        len == IF n >= k THEN n ELSE k
    IN [i \in 1..len |-> ma_times(a[IF n = 1 THEN 1 ELSE i],
                                  weights[IF k = 1 THEN 1 ELSE i])]

RECURSIVE sum_unmasked(_)
sum_unmasked(a) ==
    IF a = <<>> THEN 0
    ELSE (IF Head(a) = MaskedElem THEN 0 ELSE Head(a)[1]) + sum_unmasked(Tail(a))

\* np.sum of a masked array: the unmasked entries, or the masked constant
\* when every entry is masked
ma_sum(a) ==
    IF \A i \in DOMAIN a : a[i] = MaskedElem THEN MaskedValue
    ELSE Value(sum_unmasked(a))

\* does value improve on the best objective value seen so far
Improves(value, best_f) ==
    /\ value[1] = "value"
    /\ best_f[1] = "value" => value[2] < best_f[2]

\* lines 31-34, one call of objective_function(x) by the solver.  compute
\* fills the memodicts before the weights are applied; the solver takes the
\* masked constant as nan, which improves on nothing.
Evaluated(f, x) ==
    LET entered == [f EXCEPT !.n_evals = @ + 1, !.x = x,
                       !.n_accel = IF f.compute = "precomputed" THEN @ + 1 ELSE @,
                       !.n_brute = IF f.compute = "brute" THEN @ + 1 ELSE @,
                       !.usages_est = <<>>, !.objective = Raising]
    IN IF ~Unpacks(f, x) THEN Raise(entered, "ValueError")
       ELSE LET usages_est == compute(f, x)
                low == hdd_key(x[4], PrecomputeScale)
                high == cdd_key(x[4] + x[5], PrecomputeScale)
                computed ==
                    [entered EXCEPT
                       !.usages_est = usages_est,
                       !.hdd_runs = IF f.compute = "precomputed"
                                    THEN memo_runs(@, f.hdd_memo, low) ELSE @,
                       !.cdd_runs = IF f.compute = "precomputed"
                                    THEN memo_runs(@, f.cdd_memo, high) ELSE @,
                       !.hdd_memo =
                           IF f.compute = "precomputed"
                           THEN memo_put(@, low,
                                    hdd_and_margin(low, f.observed_daily_temps,
                                                   f.bounds, PrecomputeScale))
                           ELSE @,
                       !.cdd_memo =
                           IF f.compute = "precomputed"
                           THEN memo_put(@, high,
                                    cdd_and_margin(high, f.observed_daily_temps,
                                                   f.bounds, PrecomputeScale))
                           ELSE @]
                sq == squared_errors(f, usages_est)
            IN IF ~Broadcastable(Len(sq), Len(f.w))
               THEN Raise(computed, "ValueError")
               ELSE LET value == ma_sum(ma_multiply(sq, f.w))
                        better == Improves(value, f.best_f) \/ f.n_evals = 0
                    IN [computed EXCEPT
                          !.objective = value,
                          !.best_x = IF better THEN x ELSE @,
                          !.best_f = IF better THEN value ELSE @]

\* lines 38-40: params = result.x, the best point the solver evaluated
Returned(f) == [f EXCEPT !.params = f.best_x, !.pc = "returned"]

(***************************************************************************)
(* The calls drawn                                                         *)
(***************************************************************************)
Step == GridStep(PrecomputeScale)

\* the nonempty sequences over S of at most n entries
SeqsUpTo(S, n) == UNION {[1..k -> S] : k \in 1..n}

\* a period of d days, 0.0, 0.1, ... degrees
FitPeriod(d) == [i \in 1..d |-> (i - 1) * Step]

FitPeriods == {FitPeriod(d) : d \in 1..MaxDays}

FitSeries == SeqsUpTo(FitPeriods, MaxPeriods)

FitUsages == SeqsUpTo({NaN, Float(Sub + 1)}, MaxPeriods)

FitWeights == {None} \cup {Given([i \in 1..k |-> i + 1]) : k \in 1..(MaxPeriods + 1)}

DualBounds == <<<<0, 2>>, <<0, 2>>, <<0, Unit>>, <<0, Step>>, <<0, Step>>>>

SingleBounds == <<<<0, Step>>, <<0, Unit>>, <<0, 2>>>>

DualX0 == <<1, 1, 1, Step, 0>>

SingleX0 == <<Step, 1, 1>>

\* the object: its class and the constructor's arguments
FitObjects ==
    [cls : {"HDDCDD"}, x0 : {DualX0, SubSeq(DualX0, 1, 4)},
     bounds : {DualBounds, SubSeq(DualBounds, 1, 4)}, precompute : BOOLEAN]
    \cup [cls : {"HDD", "CDD"}, x0 : {SingleX0}, bounds : {SingleBounds},
          precompute : BOOLEAN]

\* the points the solver may evaluate after x0: on and off the grid, and
\* beyond the bounds on either side
DualCandidates ==
    {DualX0, <<2, 1, 0, 1, Step>>, <<1, 2, 1, Step, 1>>,
     <<1, 1, 0, 3 * Step, 0>>, <<1, 1, 0, 0 - 2 * Step, 0>>}

SingleCandidates == {SingleX0, <<Step + 1, 0, 2>>, <<0, 1, 1>>}

Candidates(f) ==
    IF Len(f.x0) = 5 THEN DualCandidates
    ELSE IF Len(f.x0) = 3 THEN SingleCandidates
    ELSE {f.x0}

NoUsage == <<>>

Init ==
    /\ \E o \in FitObjects, u \in FitUsages, t \in FitSeries, w \in FitWeights :
          fit = NewCall(o.cls, o.x0, o.bounds, o.precompute, u, t, w)
    /\ fitB = <<>>
    /\ usage = NoUsage

Prepare ==
    /\ fit.pc = "call"
    /\ fit' = Prepared(fit)
    /\ UNCHANGED <<usage, fitB>>

BindCompute ==
    /\ fit.pc = "prepared"
    /\ fit' = Bound(fit)
    /\ UNCHANGED <<usage, fitB>>

AssertLengths ==
    /\ fit.pc = "bound"
    /\ fit' = Asserted(fit)
    /\ UNCHANGED <<usage, fitB>>

EnterMinimize ==
    /\ fit.pc = "asserted"
    /\ fit' = MinimizeEntered(fit)
    /\ UNCHANGED <<usage, fitB>>

\* the solver evaluates x0 first, then whatever points it chooses
ObjectiveFunction ==
    /\ fit.pc = "minimizing"
    /\ fit.n_evals < MaxEvals
    /\ \E x \in (IF fit.n_evals = 0 THEN {fit.x0} ELSE Candidates(fit)) :
          fit' = Evaluated(fit, x)
    /\ UNCHANGED <<usage, fitB>>

ReturnParams ==
    /\ fit.pc = "minimizing"
    /\ fit.n_evals >= 1
    /\ fit' = Returned(fit)
    /\ UNCHANGED <<usage, fitB>>

Next ==
    \/ Prepare
    \/ BindCompute
    \/ AssertLengths
    \/ EnterMinimize
    \/ ObjectiveFunction
    \/ ReturnParams

Spec == Init /\ [][Next]_vars

(***************************************************************************)
(* Two calls that differ only in the temperatures of NaN periods, the      *)
(* solver evaluating the same points in both                               *)
(***************************************************************************)
\* objects whose x0 and bounds fit their class
SoundObjects ==
    {o \in FitObjects :
        /\ Len(o.x0) = ParamCount(o.cls)
        /\ Len(o.bounds) = ParamCount(o.cls)
        /\ o.precompute => o.cls = "HDDCDD"}

\* tB is t with other temperatures in some periods whose usage is NaN
DiffersOnlyWhereNaN(u, t, tB) ==
    /\ Len(tB) = Len(t)
    /\ tB # t
    /\ \A j \in DOMAIN t : tB[j] # t[j] => (j \in DOMAIN u /\ u[j] = NaN)

InitMask ==
    /\ \E o \in SoundObjects, u \in FitUsages, t \in FitSeries, tB \in FitSeries,
          w \in FitWeights :
          /\ DiffersOnlyWhereNaN(u, t, tB)
          /\ fit = NewCall(o.cls, o.x0, o.bounds, o.precompute, u, t, w)
          /\ fitB = NewCall(o.cls, o.x0, o.bounds, o.precompute, u, tB, w)
    /\ usage = NoUsage

BothPrepare ==
    /\ fit.pc = "call"
    /\ fit' = Prepared(fit)
    /\ fitB' = Prepared(fitB)
    /\ UNCHANGED usage

BothBindCompute ==
    /\ fit.pc = "prepared"
    /\ fit' = Bound(fit)
    /\ fitB' = Bound(fitB)
    /\ UNCHANGED usage

BothAssertLengths ==
    /\ fit.pc = "bound"
    /\ fit' = Asserted(fit)
    /\ fitB' = Asserted(fitB)
    /\ UNCHANGED usage

BothEnterMinimize ==
    /\ fit.pc = "asserted"
    /\ fit' = MinimizeEntered(fit)
    /\ fitB' = MinimizeEntered(fitB)
    /\ UNCHANGED usage

\* the solver is deterministic: while the objective values agree it
\* evaluates the same point in both calls
BothObjectiveFunction ==
    /\ fit.pc = "minimizing"
    /\ fitB.pc = "minimizing"
    /\ fit.objective = fitB.objective
    /\ fit.n_evals < MaxEvals
    /\ \E x \in (IF fit.n_evals = 0 THEN {fit.x0} ELSE Candidates(fit)) :
          /\ fit' = Evaluated(fit, x)
          /\ fitB' = Evaluated(fitB, x)
    /\ UNCHANGED usage

BothReturnParams ==
    /\ fit.pc = "minimizing"
    /\ fitB.pc = "minimizing"
    /\ fit.n_evals >= 1
    /\ fit' = Returned(fit)
    /\ fitB' = Returned(fitB)
    /\ UNCHANGED usage

NextMask ==
    \/ BothPrepare
    \/ BothBindCompute
    \/ BothAssertLengths
    \/ BothEnterMinimize
    \/ BothObjectiveFunction
    \/ BothReturnParams

SpecMask == InitMask /\ [][NextMask]_vars

(***************************************************************************)
(* Two calls in flight at once (two threads), their steps interleaved in   *)
(* any order.  The object's fields are only read by a call; each call's    *)
(* locals, its closure and the closure's two memodicts belong to the call. *)
(***************************************************************************)
\* memoize keeping one dict for every function it decorates: a closure sees
\* the entries of the other call's closure as well
closure_memo_shared(own, other) ==
    [k \in DOMAIN own \cup DOMAIN other |-> IF k \in DOMAIN other THEN other[k] ELSE own[k]]

\* the dict behind a memoized closure: memoize makes a new memodict() each
\* time it decorates, and precompute_usage_estimates decorates anew in every
\* call, so a closure sees the entries of its own dict only
closure_memo(own, other) == own

\* the call f as its closure finds it while the call other is in flight
InFlight(f, other) ==
    [f EXCEPT !.hdd_memo = closure_memo(@, other.hdd_memo),
              !.cdd_memo = closure_memo(@, other.cdd_memo)]

\* bounds of a second model object, with a wider range for bp_low
WideBounds == <<<<0, 2>>, <<0, 2>>, <<0, Unit>>, <<0, 2 * Step>>, <<0, Step>>>>

\* the model objects of the two calls: dual models with the accelerator
InterleavedObjects ==
    [cls : {"HDDCDD"}, x0 : {DualX0}, bounds : {DualBounds, WideBounds}, precompute : {TRUE}]

\* one series of each length, its periods of every length in turn
InterleavedSeries ==
    {[j \in 1..n |-> FitPeriod(((j - 1) % MaxDays) + 1)] : n \in 1..MaxPeriods}

\* the series t one grid step warmer
Warmer(t) == [j \in DOMAIN t |-> [i \in DOMAIN t[j] |-> t[j][i] + Step]]

\* an observed usage for every period of t
UsagesFor(t) == [j \in DOMAIN t |-> Float(Sub + 1)]

\* both calls are on one object, or the second on another object; their
\* temperature series differ
InitInterleaved ==
    /\ \E o \in InterleavedObjects, oB \in InterleavedObjects, t \in InterleavedSeries :
          /\ o.bounds = DualBounds
          /\ fit = NewCall(o.cls, o.x0, o.bounds, o.precompute, UsagesFor(t), t, None)
          /\ fitB = NewCall(oB.cls, oB.x0, oB.bounds, oB.precompute,
                            UsagesFor(t), Warmer(t), None)
    /\ usage = NoUsage

InterleavedPrepare ==
    \/ fit.pc = "call" /\ fit' = Prepared(fit) /\ UNCHANGED <<usage, fitB>>
    \/ fitB.pc = "call" /\ fitB' = Prepared(fitB) /\ UNCHANGED <<usage, fit>>

InterleavedBindCompute ==
    \/ fit.pc = "prepared" /\ fit' = Bound(fit) /\ UNCHANGED <<usage, fitB>>
    \/ fitB.pc = "prepared" /\ fitB' = Bound(fitB) /\ UNCHANGED <<usage, fit>>

InterleavedAssertLengths ==
    \/ fit.pc = "bound" /\ fit' = Asserted(fit) /\ UNCHANGED <<usage, fitB>>
    \/ fitB.pc = "bound" /\ fitB' = Asserted(fitB) /\ UNCHANGED <<usage, fit>>

InterleavedEnterMinimize ==
    \/ fit.pc = "asserted" /\ fit' = MinimizeEntered(fit) /\ UNCHANGED <<usage, fitB>>
    \/ fitB.pc = "asserted" /\ fitB' = MinimizeEntered(fitB) /\ UNCHANGED <<usage, fit>>

\* one call's solver evaluates its objective while the other call is anywhere
\* in its body
InterleavedObjectiveFunction ==
    \/ /\ fit.pc = "minimizing"
       /\ fit.n_evals < MaxEvals
       /\ \E x \in (IF fit.n_evals = 0 THEN {fit.x0} ELSE Candidates(fit)) :
             fit' = Evaluated(InFlight(fit, fitB), x)
       /\ UNCHANGED <<usage, fitB>>
    \/ /\ fitB.pc = "minimizing"
       /\ fitB.n_evals < MaxEvals
       /\ \E x \in (IF fitB.n_evals = 0 THEN {fitB.x0} ELSE Candidates(fitB)) :
             fitB' = Evaluated(InFlight(fitB, fit), x)
       /\ UNCHANGED <<usage, fit>>

InterleavedReturnParams ==
    \/ /\ fit.pc = "minimizing"
       /\ fit.n_evals >= 1
       /\ fit' = Returned(fit)
       /\ UNCHANGED <<usage, fitB>>
    \/ /\ fitB.pc = "minimizing"
       /\ fitB.n_evals >= 1
       /\ fitB' = Returned(fitB)
       /\ UNCHANGED <<usage, fit>>

NextInterleaved ==
    \/ InterleavedPrepare
    \/ InterleavedBindCompute
    \/ InterleavedAssertLengths
    \/ InterleavedEnterMinimize
    \/ InterleavedObjectiveFunction
    \/ InterleavedReturnParams

SpecInterleaved == InitInterleaved /\ [][NextInterleaved]_vars

(***************************************************************************)
(* Direct calls of the usage functions on drawn inputs                     *)
(***************************************************************************)
\* an on-grid reference temperature around which the drawn values lie
GridOrigin == Deg(65)

OnGrid(t, bp_scale) == t % GridStep(bp_scale) = 0

OnGridTemps == {GridOrigin - GridStep(PrecomputeScale), GridOrigin}

\* periods of on-grid temperatures, and periods holding an off-grid reading
GridPeriods == SeqsUpTo(OnGridTemps, MaxDays)

OffGridPeriods == {<<GridOrigin + 1>>}

\* the periods of the two worked scenarios
ThreeDayPeriod == <<Deg(60), Deg(70), Deg(80)>>

ThirtyDayPeriod == [i \in 1..30 |-> Deg(50)]

UsageSeries ==
    SeqsUpTo(GridPeriods \cup OffGridPeriods, MaxPeriods)
    \cup {<<ThreeDayPeriod>>, <<ThirtyDayPeriod>>, <<ThirtyDayPeriod, ThirtyDayPeriod>>}

\* balance points: every sub-grid position from below the drawn
\* temperatures to above them
BalancePoints ==
    {GridOrigin - GridStep(PrecomputeScale) + k :
        k \in (0 - 1)..(2 * GridStep(PrecomputeScale) + 1)}

\* <<ts_low, ts_high, base_load>>
Sensitivities == {<<1, 1, 0>>, <<2, 3, Deg(10)>>, <<0, 1, Unit>>}

DualParams ==
    {<<s[1], s[2], s[3], bp_low, bp_diff>> :
        s \in Sensitivities, bp_low \in BalancePoints, bp_diff \in {0, 1, Deg(5)}}

\* <<reference_temperature, base_level_consumption, slope>>
SingleParams ==
    {<<bp, base, slope>> : bp \in BalancePoints, base \in {0, Deg(10)}, slope \in {1, 2}}

\* the bounds handed to precompute_usage_estimates: only entries 3 and 4
\* (Python indices) are read
AccelBounds ==
    {<<<<0, 3>>, <<0, 3>>, <<0, Deg(10)>>,
       <<GridOrigin - GridStep(PrecomputeScale), GridOrigin + GridStep(PrecomputeScale)>>,
       <<0, Deg(5)>>>>}

NoBounds == <<>>

InitUsage ==
    /\ usage \in [observed_daily_temps : UsageSeries, op : {"none"}, params : {<<>>},
                  bounds : {NoBounds}, usages_est : {<<>>}]
    /\ fit = <<>>
    /\ fitB = <<>>

\* HDDCDDBalancePointModel.compute_usage_estimates(params, observed_daily_temps)
CallHDDCDD ==
    /\ usage.op = "none"
    /\ \E params \in DualParams :
         usage' = [usage EXCEPT !.op = "HDDCDD", !.params = params, !.bounds = NoBounds,
                     !.usages_est =
                         HDDCDD_compute_usage_estimates(params, usage.observed_daily_temps)]
    /\ UNCHANGED <<fit, fitB>>

\* HDDBalancePointModel.compute_usage_estimates(params, observed_daily_temps)
CallHDD ==
    /\ usage.op = "none"
    /\ \E params \in SingleParams :
         usage' = [usage EXCEPT !.op = "HDD", !.params = params, !.bounds = NoBounds,
                     !.usages_est =
                         HDD_compute_usage_estimates(params, usage.observed_daily_temps)]
    /\ UNCHANGED <<fit, fitB>>

\* CDDBalancePointModel.compute_usage_estimates(params, observed_daily_temps)
CallCDD ==
    /\ usage.op = "none"
    /\ \E params \in SingleParams :
         usage' = [usage EXCEPT !.op = "CDD", !.params = params, !.bounds = NoBounds,
                     !.usages_est =
                         CDD_compute_usage_estimates(params, usage.observed_daily_temps)]
    /\ UNCHANGED <<fit, fitB>>

\* precompute_usage_estimates(observed_daily_temps, bounds, 10)(params):
\* a fresh closure, so both memodicts start empty
CallPrecomputed ==
    /\ usage.op = "none"
    /\ \E params \in DualParams, bounds \in AccelBounds :
         usage' = [usage EXCEPT !.op = "precomputed", !.params = params,
                     !.bounds = bounds,
                     !.usages_est =
                         accel_compute_usage_estimates(EmptyMemo, EmptyMemo, params,
                             usage.observed_daily_temps, bounds, PrecomputeScale)]
    /\ UNCHANGED <<fit, fitB>>

NextUsage == CallHDDCDD \/ CallHDD \/ CallCDD \/ CallPrecomputed

SpecUsage == InitUsage /\ [][NextUsage]_vars

(***************************************************************************)
(* The degree-day kernel as the claims state it                            *)
(***************************************************************************)
\* sum over the days of max(balance_point - day_temp, 0)
RECURSIVE HeatingDegreeDays(_, _)
HeatingDegreeDays(bp, temps) ==
    IF temps = <<>> THEN 0
    ELSE (IF bp > Head(temps) THEN bp - Head(temps) ELSE 0)
         + HeatingDegreeDays(bp, Tail(temps))

\* sum over the days of max(day_temp - balance_point, 0)
RECURSIVE CoolingDegreeDays(_, _)
CoolingDegreeDays(bp, temps) ==
    IF temps = <<>> THEN 0
    ELSE (IF Head(temps) > bp THEN Head(temps) - bp ELSE 0)
         + CoolingDegreeDays(bp, Tail(temps))

AllOnGrid(observed_daily_temps, bp_scale) ==
    \A j \in DOMAIN observed_daily_temps : \A i \in DOMAIN observed_daily_temps[j] :
        OnGrid(observed_daily_temps[j][i], bp_scale)

\* C1's parameter range: bp_low within bounds[3], bp_low+bp_diff at least
\* bounds[3][0]+bounds[4][0]
InAccelRange(params, bounds) ==
    /\ bounds[4][1] <= params[4]
    /\ params[4] <= bounds[4][2]
    /\ params[4] + params[5] >= bounds[4][1] + bounds[5][1]

\* C1: with every daily temperature on the 1/bp_scale grid, the function
\* returned by precompute_usage_estimates gives, for every parameter vector in
\* range (balance points on or off the grid), the per-period usage of the
\* brute-force HDDCDDBalancePointModel.compute_usage_estimates.
C1_AccelEqualsBruteForce ==
    (/\ usage.op = "precomputed"
     /\ AllOnGrid(usage.observed_daily_temps, PrecomputeScale)
     /\ InAccelRange(usage.params, usage.bounds))
    => \A j \in DOMAIN usage.observed_daily_temps :
          usage.usages_est[j] =
              usage.params[1] * HeatingDegreeDays(usage.params[4],
                                                  usage.observed_daily_temps[j])
              + usage.params[2] * CoolingDegreeDays(usage.params[4] + usage.params[5],
                                                    usage.observed_daily_temps[j])
              + usage.params[3] * Len(usage.observed_daily_temps[j])

\* C2: the dual model's predicted total of every period is
\* ts_low * HDD(bp_low) + ts_high * CDD(bp_low + bp_diff) + base_load * days;
\* params (1, 1, 0, 65, 5) on the single period [60, 70, 80] give 15.
C2_DualModelFormula ==
    usage.op = "HDDCDD" =>
        /\ DOMAIN usage.usages_est = DOMAIN usage.observed_daily_temps
        /\ \A j \in DOMAIN usage.observed_daily_temps :
              usage.usages_est[j] =
                  usage.params[1] * HeatingDegreeDays(usage.params[4],
                                                      usage.observed_daily_temps[j])
                  + usage.params[2] * CoolingDegreeDays(usage.params[4] + usage.params[5],
                                                        usage.observed_daily_temps[j])
                  + usage.params[3] * Len(usage.observed_daily_temps[j])
        /\ (/\ usage.params = <<1, 1, 0, Deg(65), Deg(5)>>
            /\ usage.observed_daily_temps = <<ThreeDayPeriod>>)
           => usage.usages_est = <<Deg(15)>>

\* C2's case: the worked scenario has been computed, and its middle day sits
\* exactly on the upper balance point
C2_Witness ==
    /\ usage.op = "HDDCDD"
    /\ usage.params = <<1, 1, 0, Deg(65), Deg(5)>>
    /\ usage.observed_daily_temps = <<ThreeDayPeriod>>
    /\ usage.usages_est = <<Deg(15)>>

\* C3: each single balance-point model's predicted total of every period is
\* slope * DD(reference_temperature) + base_load * days, DD heating for the HDD
\* model and cooling for the CDD model; two 30-day periods constant at 50 with
\* slope 2, base load 10 and reference 65 average 40 a day; one-day periods
\* follow the same formula.
C3_SingleModelFormula ==
    /\ usage.op = "HDD" =>
        /\ DOMAIN usage.usages_est = DOMAIN usage.observed_daily_temps
        /\ \A j \in DOMAIN usage.observed_daily_temps :
              usage.usages_est[j] =
                  usage.params[3] * HeatingDegreeDays(usage.params[1],
                                                      usage.observed_daily_temps[j])
                  + usage.params[2] * Len(usage.observed_daily_temps[j])
        /\ (/\ usage.params = <<Deg(65), Deg(10), 2>>
            /\ usage.observed_daily_temps = <<ThirtyDayPeriod, ThirtyDayPeriod>>)
           => \A j \in 1..2 : usage.usages_est[j] = Deg(40) * 30
    /\ usage.op = "CDD" =>
        /\ DOMAIN usage.usages_est = DOMAIN usage.observed_daily_temps
        /\ \A j \in DOMAIN usage.observed_daily_temps :
              usage.usages_est[j] =
                  usage.params[3] * CoolingDegreeDays(usage.params[1],
                                                      usage.observed_daily_temps[j])
                  + usage.params[2] * Len(usage.observed_daily_temps[j])

\* C3's case: the 30-day scenario has been computed by the heating model
C3_Witness ==
    /\ usage.op = "HDD"
    /\ usage.params = <<Deg(65), Deg(10), 2>>
    /\ usage.observed_daily_temps = <<ThirtyDayPeriod, ThirtyDayPeriod>>
    /\ usage.usages_est = <<Deg(40) * 30, Deg(40) * 30>>

(***************************************************************************)
(* Claims about parameter_optimization                                     *)
(***************************************************************************)
\* C4: two fits that differ only in the daily temperatures of periods whose
\* observed usage is NaN see the same objective value at every point the
\* solver evaluates, and so end the same way with the same parameters, with
\* the accelerator and on the brute-force path.
C4_MaskedPeriodsDoNotInterfere ==
    /\ fit.pc = fitB.pc
    /\ fit.x = fitB.x
    /\ fit.objective = fitB.objective
    /\ fit.error = fitB.error
    /\ fit.params = fitB.params

\* C4's case: the altered NaN period changed the prediction, the objective
\* took a value, and both fits returned
C4_Witness ==
    /\ fit.pc = "returned"
    /\ fit.precompute
    /\ fit.observed_daily_temps # fitB.observed_daily_temps
    /\ fit.usages_est # fitB.usages_est
    /\ fit.objective[1] = "value"
    /\ fit.n_evals >= 2

\* the weight the claims give period i
ClaimedWeight(f, i) == IF f.weights = None THEN 1 ELSE f.weights[2][i]

\* the weighted sum of squared differences over the periods that are not
\* NaN, in units of 1/DayScale squared like the objective
WeightedSquaredErrors(f) ==
    np_sum([i \in DOMAIN f.average_daily_usages |->
              IF f.average_daily_usages[i] = NaN THEN 0
              ELSE LET d == f.average_daily_usages[i][1] * DayScale
                            - f.usages_est[i] * (DayScale \div Len(f.observed_daily_temps[i]))
                   IN ClaimedWeight(f, i) * d * d])

WellFormedWeights(f) ==
    f.weights = None \/ Len(f.weights[2]) = Len(f.observed_daily_temps)

\* C5: every objective evaluation equals the sum, over exactly the periods
\* whose observed usage is not NaN, of
\* weight[i] * (observed[i] - predicted_total[i]/days[i])^2, the weight being 1
\* when no weights are supplied.
C5_ObjectiveIsMaskedWeightedSSE ==
    (/\ fit.n_evals >= 1
     /\ fit.objective # Raising
     /\ WellFormedWeights(fit))
    => fit.objective = Value(WeightedSquaredErrors(fit))

AllNaN(f) == \A i \in DOMAIN f.average_daily_usages : f.average_daily_usages[i] = NaN

\* C6: when every period's observed usage is NaN the call is rejected with an
\* error: the optimizer is never entered, the objective never evaluated, and
\* no parameter vector returned.
C6_AllMaskedIsRejected ==
    AllNaN(fit) =>
        /\ fit.pc \notin {"minimizing", "returned"}
        /\ fit.n_evals = 0

\* C7: when the weights supplied are not one per period the call fails: the
\* weights are never broadcast, truncated or padded into an objective value,
\* and no parameter vector is returned.
C7_WeightLengthMismatchIsAnError ==
    (fit.weights # None /\ Len(fit.weights[2]) # Len(fit.observed_daily_temps))
    => /\ fit.pc # "returned"
       /\ fit.objective \in {Unset, Raising}

BadConfiguration(f) ==
    \/ Len(f.x0) # ParamCount(f.cls)
    \/ Len(f.bounds) # ParamCount(f.cls)
    \/ Len(f.average_daily_usages) # Len(f.observed_daily_temps)

\* C8: when x0 or the bounds do not have the model's parameter count, or the
\* usages and the temperature series differ in length, the call fails before
\* any optimization work: the accelerator is not built, the objective is not
\* evaluated, and no parameter vector is returned.
C8_BadConfigurationFailsFast ==
    BadConfiguration(fit) =>
        /\ fit.n_builds = 0
        /\ fit.n_evals = 0
        /\ fit.pc # "returned"

\* the balance points of x moved to the nearest ones inside the precomputed
\* range
Clamped(x, bounds, bp_scale) ==
    LET bp_low == IF x[4] > bp_heat_max(bounds, bp_scale)
                  THEN bp_heat_max(bounds, bp_scale) ELSE x[4]
        bp_high == IF x[4] + x[5] < bp_cool_min(bounds, bp_scale)
                   THEN bp_cool_min(bounds, bp_scale) ELSE x[4] + x[5]
    IN <<bp_low, bp_high>>

OutOfRange(x, bounds, bp_scale) ==
    \/ x[4] > bp_heat_max(bounds, bp_scale)
    \/ x[4] + x[5] < bp_cool_min(bounds, bp_scale)

\* C9: with the accelerator, a balance point probed outside the precomputed
\* range is clamped into it before the grid is queried: the query does not
\* raise, every grid lookup of the fit is at a grid value inside the range,
\* and the degree-days returned for the probe are those of the nearest
\* in-range balance point.
C9_OutOfRangeProbesAreClamped ==
    (fit.compute = "precomputed" /\ fit.n_evals >= 1 /\ Len(fit.x) = 5)
    => /\ DOMAIN fit.usages_est = DOMAIN fit.observed_daily_temps
       /\ \A k \in DOMAIN fit.hdd_memo : k <= bp_heat_max(fit.bounds, PrecomputeScale)
       /\ \A k \in DOMAIN fit.cdd_memo : k >= bp_cool_min(fit.bounds, PrecomputeScale)
       /\ OutOfRange(fit.x, fit.bounds, PrecomputeScale) =>
            LET c == Clamped(fit.x, fit.bounds, PrecomputeScale)
            IN \A j \in DOMAIN fit.usages_est :
                  fit.usages_est[j] =
                      fit.x[1] * HeatingDegreeDays(c[1], fit.observed_daily_temps[j])
                      + fit.x[2] * CoolingDegreeDays(c[2], fit.observed_daily_temps[j])
                      + fit.x[3] * Len(fit.observed_daily_temps[j])

\* C10: in a call with precompute enabled the accelerator is built exactly
\* once, before the first objective evaluation, however often the objective
\* is evaluated, and every evaluation goes through the accelerator's function,
\* none through the brute-force compute_usage_estimates.
C10_AcceleratorBuiltOnceAndAlwaysUsed ==
    fit.precompute =>
        /\ fit.n_builds <= 1
        /\ fit.n_brute = 0
        /\ fit.n_evals >= 1 => (fit.n_builds = 1 /\ fit.n_accel = fit.n_evals)
        /\ fit.pc = "returned" => fit.n_builds = 1

\* C10's case: a precompute call that evaluated the objective several times
\* and returned
C10_Witness ==
    /\ fit.precompute
    /\ fit.pc = "returned"
    /\ fit.n_evals >= 2
    /\ fit.n_builds = 1
    /\ fit.n_accel = fit.n_evals

(***************************************************************************)
(* Relations between calls of the usage functions                          *)
(***************************************************************************)
\* C12: on the single balance-point models with unit slope and zero base
\* load, for every period and every balance point bp2 at or above the one
\* called with, the heating model's total at bp2 is at least the total
\* computed and the cooling model's total at bp2 is at most the total
\* computed; and the heating total is exactly 0 on a period where every day's
\* temperature equals the balance point.
C12_DegreeDaysAreMonotone ==
    LET temps == usage.observed_daily_temps
        bp1 == usage.params[1]
        unit == usage.params[2] = 0 /\ usage.params[3] = 1
    IN /\ (usage.op = "HDD" /\ unit) =>
            /\ \A bp2 \in BalancePoints : bp1 <= bp2 =>
                  LET at_bp2 == HDD_compute_usage_estimates(<<bp2, 0, 1>>, temps)
                  IN \A j \in DOMAIN temps : at_bp2[j] >= usage.usages_est[j]
            /\ \A j \in DOMAIN temps :
                  (\A i \in DOMAIN temps[j] : temps[j][i] = bp1) => usage.usages_est[j] = 0
       /\ (usage.op = "CDD" /\ unit) =>
            \A bp2 \in BalancePoints : bp1 <= bp2 =>
                LET at_bp2 == CDD_compute_usage_estimates(<<bp2, 0, 1>>, temps)
                IN \A j \in DOMAIN temps : at_bp2[j] <= usage.usages_est[j]

\* C12's case: the heating model was called with unit slope and zero base
\* load at a balance point every day of the period sits on, and a higher
\* balance point gives strictly more heating degree-days
C12_Witness ==
    /\ usage.op = "HDD"
    /\ usage.params = <<GridOrigin, 0, 1>>
    /\ usage.observed_daily_temps = <<<<GridOrigin, GridOrigin>>>>
    /\ usage.usages_est = <<0>>
    /\ \E bp2 \in BalancePoints :
          /\ bp2 > GridOrigin
          /\ HDD_compute_usage_estimates(<<bp2, 0, 1>>, usage.observed_daily_temps)[1] > 0

\* the dual parameter vector with slopes and base load multiplied by k
ScaledDual(params, k) == <<k * params[1], k * params[2], k * params[3], params[4], params[5]>>

\* the single parameter vector with base load and slope multiplied by k
ScaledSingle(params, k) == <<params[1], k * params[2], k * params[3]>>

\* the factors tried: none of the usage, the baseline's double, the largest
Factors == {0, 2, MaxFactor}

\* the total of est over the periods in S
TotalOver(est, S) == np_sum([j \in DOMAIN est |-> IF j \in S THEN est[j] ELSE 0])

\* (pre - post) / pre = 1/2 over the periods in S, pre being non-zero there
SavingsAreHalf(pre, post, S) ==
    LET total_pre == TotalOver(pre, S)
        total_post == TotalOver(post, S)
    IN total_pre # 0 => 2 * (total_pre - total_post) = total_pre

\* C13: for the same balance points and daily temperatures, multiplying the
\* slopes and the base load by k multiplies every period's predicted usage by
\* k, on the dual and on the single balance-point models; so parameters at
\* half the baseline's give a savings fraction (pre - post) / pre of 1/2 over
\* every set of periods whose baseline usage is not zero.
C13_UsageIsHomogeneous ==
    LET temps == usage.observed_daily_temps
        est == usage.usages_est
        Times(k) == [j \in DOMAIN temps |-> k * est[j]]
        Halved(pre) == \A S \in SUBSET (DOMAIN temps) : SavingsAreHalf(pre, est, S)
    IN /\ usage.op = "HDDCDD" =>
            \A k \in Factors :
                LET scaled == HDDCDD_compute_usage_estimates(ScaledDual(usage.params, k),
                                                             temps)
                IN scaled = Times(k) /\ (k = 2 => Halved(scaled))
       /\ usage.op = "HDD" =>
            \A k \in Factors :
                LET scaled == HDD_compute_usage_estimates(ScaledSingle(usage.params, k),
                                                          temps)
                IN scaled = Times(k) /\ (k = 2 => Halved(scaled))
       /\ usage.op = "CDD" =>
            \A k \in Factors :
                LET scaled == CDD_compute_usage_estimates(ScaledSingle(usage.params, k),
                                                          temps)
                IN scaled = Times(k) /\ (k = 2 => Halved(scaled))

\* C13's case: the dual model was called with non-zero slopes and base load
\* on two periods, both heating and cooling contribute, and the usage at
\* twice the parameters is not zero
C13_Witness ==
    /\ usage.op = "HDDCDD"
    /\ usage.params[1] > 0 /\ usage.params[2] > 0 /\ usage.params[3] > 0
    /\ Len(usage.observed_daily_temps) = 2
    /\ \E j \in DOMAIN usage.observed_daily_temps :
          /\ HeatingDegreeDays(usage.params[4], usage.observed_daily_temps[j]) > 0
          /\ CoolingDegreeDays(usage.params[4] + usage.params[5],
                               usage.observed_daily_temps[j]) > 0
    /\ TotalOver(HDDCDD_compute_usage_estimates(ScaledDual(usage.params, 2),
                                                usage.observed_daily_temps), {1, 2}) # 0

\* some daily temperature lies off the 1/bp_scale grid
SomeOffGrid(observed_daily_temps, bp_scale) == ~AllOnGrid(observed_daily_temps, bp_scale)

\* C15: for a balance point exactly on the 1/bp_scale grid and inside the
\* precomputed range, and for any daily temperatures, on or off the grid, the
\* accelerator's heating and cooling degree-days of every period are the
\* brute-force sums: the remainder is zero, and the min/max shortcut skips a
\* period (leaving it at zero) exactly when its brute-force total is zero; so
\* with both balance points such, the usage returned is the brute-force one.
C15_OnGridQueriesAreExact ==
    usage.op = "precomputed" =>
        LET temps == usage.observed_daily_temps
            bp_low == usage.params[4]
            bp_high == usage.params[4] + usage.params[5]
            heat_ok == /\ OnGrid(bp_low, PrecomputeScale)
                       /\ bp_low <= bp_heat_max(usage.bounds, PrecomputeScale)
            cool_ok == /\ OnGrid(bp_high, PrecomputeScale)
                       /\ bp_high >= bp_cool_min(usage.bounds, PrecomputeScale)
            hdd == accel_hdd(EmptyMemo, bp_low, temps, usage.bounds, PrecomputeScale)
            cdd == accel_cdd(EmptyMemo, bp_high, temps, usage.bounds, PrecomputeScale)
        IN /\ heat_ok =>
                /\ bp_low - hdd_key(bp_low, PrecomputeScale) = 0
                /\ \A j \in DOMAIN temps :
                      /\ hdd[j] = HeatingDegreeDays(bp_low, temps[j])
                      /\ bp_low <= np_min(temps[j]) <=> HeatingDegreeDays(bp_low, temps[j]) = 0
           /\ cool_ok =>
                /\ cdd_key(bp_high, PrecomputeScale) - bp_high = 0
                /\ \A j \in DOMAIN temps :
                      /\ cdd[j] = CoolingDegreeDays(bp_high, temps[j])
                      /\ bp_high >= np_max(temps[j]) <=> CoolingDegreeDays(bp_high, temps[j]) = 0
           /\ (heat_ok /\ cool_ok) =>
                \A j \in DOMAIN temps :
                    usage.usages_est[j] =
                        usage.params[1] * HeatingDegreeDays(bp_low, temps[j])
                        + usage.params[2] * CoolingDegreeDays(bp_high, temps[j])
                        + usage.params[3] * Len(temps[j])

\* C15's case: an on-grid balance point queried over an off-grid reading and
\* an on-grid one; the heating shortcut skips the first period and the cooling
\* shortcut the second
C15_Witness ==
    /\ usage.op = "precomputed"
    /\ usage.observed_daily_temps = <<<<GridOrigin + 1>>, <<GridOrigin - Step>>>>
    /\ SomeOffGrid(usage.observed_daily_temps, PrecomputeScale)
    /\ usage.params = <<1, 1, 0, GridOrigin, 0>>
    /\ usage.bounds[4][2] = GridOrigin + Step
    /\ usage.usages_est = <<1, Step>>

(***************************************************************************)
(* Claims about the memodicts of one call                                  *)
(***************************************************************************)
\* every entry of before is still in after, unchanged
EntriesKept(before, after) ==
    \A k \in DOMAIN before : k \in DOMAIN after /\ after[k] = before[k]

\* the state of the two memodicts after a step of a call with the accelerator
MemoizedOnce(f) ==
    /\ DOMAIN f.hdd_runs = DOMAIN f.hdd_memo
    /\ DOMAIN f.cdd_runs = DOMAIN f.cdd_memo
    /\ \A k \in DOMAIN f.hdd_runs : f.hdd_runs[k] <= 1
    /\ \A k \in DOMAIN f.cdd_runs : f.cdd_runs[k] <= 1
    /\ \A k \in DOMAIN f.hdd_memo :
          f.hdd_memo[k] = hdd_and_margin(k, f.observed_daily_temps, f.bounds,
                                         PrecomputeScale)
    /\ \A k \in DOMAIN f.cdd_memo :
          f.cdd_memo[k] = cdd_and_margin(k, f.observed_daily_temps, f.bounds,
                                         PrecomputeScale)

\* one step of the call, from f to g
MemoStep(f, g) ==
    (g.compute = "precomputed" /\ f.pc = "minimizing") =>
        /\ EntriesKept(f.hdd_memo, g.hdd_memo)
        /\ EntriesKept(f.cdd_memo, g.cdd_memo)
        /\ MemoizedOnce(g)
        /\ (g.n_evals > f.n_evals /\ Len(g.x) = 5) =>
              /\ hdd_key(g.x[4], PrecomputeScale) \in DOMAIN f.hdd_memo
                    => (g.hdd_runs = f.hdd_runs /\ g.hdd_memo = f.hdd_memo)
              /\ cdd_key(g.x[4] + g.x[5], PrecomputeScale) \in DOMAIN f.cdd_memo
                    => (g.cdd_runs = f.cdd_runs /\ g.cdd_memo = f.cdd_memo)
              /\ g.usages_est =
                    accel_compute_usage_estimates(EmptyMemo, EmptyMemo, g.x,
                        g.observed_daily_temps, g.bounds, PrecomputeScale)

\* C14: over the accelerator queries of one fit, the degree-day and margin
\* arrays of a rounded grid value are computed at most once per side; a later
\* query rounding to the same grid value computes nothing and leaves the
\* cache as it is; an entry once inserted is never modified or removed; and
\* every query returns what the computation without a cache returns.
C14_Memoization == [][MemoStep(fit, fit')]_vars

\* C14's case: the second query rounds to the heating grid value of the first
\* and to a new cooling one: one heating entry computed once, two cooling
\* entries
C14_Witness ==
    /\ fit.compute = "precomputed"
    /\ fit.n_evals = 2
    /\ fit.x = <<1, 2, 1, Step, 1>>
    /\ DOMAIN fit.hdd_memo = {Step}
    /\ fit.hdd_runs[Step] = 1
    /\ DOMAIN fit.cdd_memo = {Step, 2 * Step}
    /\ fit.usages_est # <<>>

(***************************************************************************)
(* Claims about two calls in flight at once                                *)
(***************************************************************************)
\* the step from f to g is one the call takes when it runs alone
AloneStep(f, g) ==
    IF g.n_evals > f.n_evals THEN g = Evaluated(f, g.x)
    ELSE g \in {Prepared(f), Bound(f), Asserted(f), MinimizeEntered(f), Returned(f)}

\* every entry of the caches of f was computed by f itself, once, from its own
\* temperatures and bounds
OwnCachesOnly(f) == f.compute = "precomputed" => MemoizedOnce(f)

\* one step of either call
SharesNothing(f, g, other, other_after) ==
    g # f => /\ other_after = other
             /\ AloneStep(f, g)
             /\ OwnCachesOnly(g)

\* C11: when two parameter_optimization calls, on one model object or on
\* two, are interleaved in any order, a step of one call leaves the other
\* call's state and caches as they are, every cache entry of a call was
\* computed by that call from its own data, and each step (so each objective
\* value, in sequence) is the one the call makes from the same point when it
\* runs alone.
C11_FitsShareNothing ==
    [][/\ SharesNothing(fit, fit', fitB, fitB')
       /\ SharesNothing(fitB, fitB', fit, fit')]_vars

\* C11's case: both calls are inside the solver at once, each has evaluated
\* its objective, and their caches hold different arrays under the same grid
\* value
C11_Witness ==
    /\ usage = NoUsage
    /\ fitB # <<>>
    /\ fit.pc = "minimizing" /\ fitB.pc = "minimizing"
    /\ fit.n_evals >= 1 /\ fitB.n_evals >= 1
    /\ fit.observed_daily_temps # fitB.observed_daily_temps
    /\ fit.x = fitB.x
    /\ fit.objective # fitB.objective
    /\ \E k \in DOMAIN fit.hdd_memo \cap DOMAIN fitB.hdd_memo :
          fit.hdd_memo[k] # fitB.hdd_memo[k]

====
